---------------------------- MODULE Spec2Model ----------------------------
(***************************************************************************)
(* A model of models.py: the NearEarthObject and CloseApproach classes,    *)
(* their constructors' normalisation of loosely typed raw values, the      *)
(* fullname / time_str properties and the two serialize methods.           *)
(*                                                                         *)
(* Python values are tagged records.  Text is a sequence of one-character  *)
(* strings, so that str(), float() and the f-string of fullname are        *)
(* computed character by character.  A float is a decimal m / 10^e in      *)
(* lowest terms (or not-a-number); every float the model meets is a short  *)
(* decimal literal, for which Python's float() and repr() round-trip.      *)
(***************************************************************************)
EXTENDS Integers, Sequences, FiniteSets

VARIABLES neos, lists, cas, ret

vars == <<neos, lists, cas, ret>>

---------------------------------------------------------------------------
(* Python values *)

PyNone == [t |-> "NoneType"]

\* Marks a parameter the caller did not pass: the default of the signature
\* is used (or, for a parameter without default, the call raises TypeError).
Omitted == [t |-> "omitted"]

PyStr(s) == [t |-> "str", s |-> s]

PyInt(n) == [t |-> "int", n |-> n]

PyBool(b) == [t |-> "bool", b |-> b]

RECURSIVE Normalize(_, _)
\* m / 10^e in lowest terms: trailing decimal zeros are not part of the value.
Normalize(m, e) ==
    IF e > 0 /\ m % 10 = 0 THEN Normalize(m \div 10, e - 1)
    ELSE [m |-> m, e |-> e]

PyFloat(m, e) ==
    [t |-> "float", nan |-> FALSE, m |-> Normalize(m, e).m, e |-> Normalize(m, e).e]

\* float('nan')
NaN == [t |-> "float", nan |-> TRUE, m |-> 0, e |-> 0]

PyRef(i) == [t |-> "NearEarthObject", id |-> i]

Ok(v) == [ok |-> TRUE, val |-> v, exc |-> ""]

Raise(e) == [ok |-> FALSE, val |-> PyNone, exc |-> e]

---------------------------------------------------------------------------
(* Text *)

DigitChars == <<"0", "1", "2", "3", "4", "5", "6", "7", "8", "9">>

IsDigit(c) == \E d \in 1..Len(DigitChars) : DigitChars[d] = c

DigitVal(c) == (CHOOSE d \in 1..Len(DigitChars) : DigitChars[d] = c) - 1

RECURSIVE NatToChars(_)
NatToChars(n) ==
    IF n < 10 THEN <<DigitChars[n + 1]>>
    ELSE NatToChars(n \div 10) \o <<DigitChars[(n % 10) + 1]>>

RECURSIVE DigitsVal(_)
DigitsVal(s) ==
    IF s = <<>> THEN 0
    ELSE DigitsVal(SubSeq(s, 1, Len(s) - 1)) * 10 + DigitVal(s[Len(s)])

RECURSIVE ZeroPad(_, _)
\* the digits s left-padded with "0" to width w (%02d and the like)
ZeroPad(s, w) == IF Len(s) >= w THEN s ELSE ZeroPad(<<"0">> \o s, w)

RECURSIVE Strip(_)
\* str.strip() for the blank character
Strip(s) ==
    IF s # <<>> /\ s[1] = " " THEN Strip(Tail(s))
    ELSE IF s # <<>> /\ s[Len(s)] = " " THEN Strip(SubSeq(s, 1, Len(s) - 1))
    ELSE s

Abs(n) == IF n < 0 THEN -n ELSE n

\* repr of a finite float m / 10^e: the integer part, a point, and the
\* fraction (".0" for a whole number).
FloatRepr(f) ==
    LET RECURSIVE Pow10(_)
        Pow10(k) == IF k = 0 THEN 1 ELSE 10 * Pow10(k - 1)
        whole == Abs(f.m) \div Pow10(f.e)
        frac  == Abs(f.m) % Pow10(f.e)
        sign  == IF f.m < 0 THEN <<"-">> ELSE <<>>
    IN  sign \o NatToChars(whole) \o <<".">> \o
        (IF f.e = 0 THEN <<"0">> ELSE ZeroPad(NatToChars(frac), f.e))

\* str(v), and what an f-string or str.format renders for v
str(v) ==
    CASE v.t = "NoneType" -> PyStr(<<"N", "o", "n", "e">>)
      [] v.t = "str"      -> v
      [] v.t = "int"      -> PyStr((IF v.n < 0 THEN <<"-">> ELSE <<>>) \o NatToChars(Abs(v.n)))
      [] v.t = "bool"     -> IF v.b THEN PyStr(<<"T", "r", "u", "e">>)
                             ELSE PyStr(<<"F", "a", "l", "s", "e">>)
      [] v.t = "float"    -> IF v.nan THEN PyStr(<<"n", "a", "n">>) ELSE PyStr(FloatRepr(v))

\* bool(v): the truth value an `if v` tests
bool(v) ==
    CASE v.t = "NoneType" -> FALSE
      [] v.t = "str"      -> v.s # <<>>
      [] v.t = "int"      -> v.n # 0
      [] v.t = "bool"     -> v.b
      [] v.t = "float"    -> v.nan \/ v.m # 0
      [] OTHER            -> TRUE

\* The float literal of text s: [sign] digits [. [digits]] | [sign] . digits
\* | [sign] nan, blanks stripped.  (Exponents, "inf" and digit separators are
\* literals too in Python; no raw value of this model uses them.)
ParseFloat(s) ==
    LET b     == Strip(s)
        signed == b # <<>> /\ b[1] \in {"+", "-"}
        u     == IF signed THEN Tail(b) ELSE b
        neg   == signed /\ b[1] = "-"
        dots  == {i \in 1..Len(u) : u[i] = "."}
        dot   == IF dots = {} THEN Len(u) + 1 ELSE CHOOSE i \in dots : TRUE
        whole == SubSeq(u, 1, dot - 1)
        frac  == SubSeq(u, dot + 1, Len(u))
        isnan == Len(u) = 3 /\ u[1] \in {"n", "N"} /\ u[2] \in {"a", "A"} /\ u[3] \in {"n", "N"}
        isnum == /\ Cardinality(dots) <= 1
                 /\ \A i \in 1..Len(u) : i \in dots \/ IsDigit(u[i])
                 /\ Len(whole) + Len(frac) > 0
        mag   == DigitsVal(whole \o frac)
    IN  IF isnan THEN Ok(NaN)
        ELSE IF isnum THEN Ok(PyFloat(IF neg THEN -mag ELSE mag, Len(frac)))
        ELSE Raise("ValueError")

\* float(v)
float(v) ==
    CASE v.t = "float" -> Ok(v)
      [] v.t = "int"   -> Ok(PyFloat(v.n, 0))
      [] v.t = "bool"  -> Ok(PyFloat(IF v.b THEN 1 ELSE 0, 0))
      [] v.t = "str"   -> ParseFloat(v.s)
      [] OTHER         -> Raise("TypeError")

IsNumber(v) == v.t \in {"int", "bool", "float"}

\* the number v as a float
Num(v) == float(v).val

\* a == b
PyEq(a, b) ==
    IF IsNumber(a) /\ IsNumber(b)
    THEN ~Num(a).nan /\ ~Num(b).nan /\ Num(a) = Num(b)
    ELSE a.t = b.t /\ a = b

---------------------------------------------------------------------------
(* helpers: cd_to_datetime and datetime_to_str *)

Months == << <<"J", "a", "n">>, <<"F", "e", "b">>, <<"M", "a", "r">>,
             <<"A", "p", "r">>, <<"M", "a", "y">>, <<"J", "u", "n">>,
             <<"J", "u", "l">>, <<"A", "u", "g">>, <<"S", "e", "p">>,
             <<"O", "c", "t">>, <<"N", "o", "v">>, <<"D", "e", "c">> >>

AllDigits(s) == \A i \in 1..Len(s) : IsDigit(s[i])

\* cd_to_datetime(calendar_date): a "YYYY-Mon-DD HH:MM" text to a timestamp
cd_to_datetime(v) ==
    IF v.t # "str" THEN Raise("TypeError")
    ELSE LET s == v.s IN
        IF /\ Len(s) = 17
           /\ s[5] = "-" /\ s[9] = "-" /\ s[12] = " " /\ s[15] = ":"
           /\ AllDigits(SubSeq(s, 1, 4)) /\ AllDigits(SubSeq(s, 10, 11))
           /\ AllDigits(SubSeq(s, 13, 14)) /\ AllDigits(SubSeq(s, 16, 17))
           /\ \E k \in 1..Len(Months) : Months[k] = SubSeq(s, 6, 8)
           /\ DigitsVal(SubSeq(s, 10, 11)) \in 1..31
           /\ DigitsVal(SubSeq(s, 13, 14)) \in 0..23
           /\ DigitsVal(SubSeq(s, 16, 17)) \in 0..59
        THEN Ok([t  |-> "datetime",
                 y  |-> DigitsVal(SubSeq(s, 1, 4)),
                 mo |-> CHOOSE k \in 1..Len(Months) : Months[k] = SubSeq(s, 6, 8),
                 d  |-> DigitsVal(SubSeq(s, 10, 11)),
                 h  |-> DigitsVal(SubSeq(s, 13, 14)),
                 mi |-> DigitsVal(SubSeq(s, 16, 17)),
                 sec |-> 0])
        ELSE Raise("ValueError")

\* datetime_to_str(dt): "YYYY-MM-DD HH:MM", the seconds dropped
datetime_to_str(dt) ==
    PyStr(ZeroPad(NatToChars(dt.y), 4) \o <<"-">> \o ZeroPad(NatToChars(dt.mo), 2)
          \o <<"-">> \o ZeroPad(NatToChars(dt.d), 2) \o <<" ">>
          \o ZeroPad(NatToChars(dt.h), 2) \o <<":">> \o ZeroPad(NatToChars(dt.mi), 2))

---------------------------------------------------------------------------
(* class NearEarthObject *)

\* the value a parameter takes: the argument, or the signature's default
Arg(a, default) == IF a = Omitted THEN default ELSE a

\* self.designation = str(designation)
NEO_designation(designation) == str(designation)

\* a faulty variant: `str(name) if name is not None else None`
NEO_name_IsNotNone(name) == IF name # PyNone THEN str(name) ELSE PyNone

\* self.name = str(name) if name else None
NEO_name(name) == IF bool(name) THEN str(name) ELSE PyNone

\* a faulty variant: `float(diameter) if diameter is not None else float('nan')`
NEO_diameter_IsNotNone(diameter) == IF diameter # PyNone THEN float(diameter) ELSE Ok(NaN)

\* self.diameter = float(diameter) if diameter else float('nan')
NEO_diameter(diameter) == IF bool(diameter) THEN float(diameter) ELSE Ok(NaN)

\* a faulty variant: `True if hazardous else False`
NEO_hazardous_Truthy(hazardous) == PyBool(bool(hazardous))

\* self.hazardous = True if hazardous == 'Y' else False
NEO_hazardous(hazardous) == PyBool(PyEq(hazardous, PyStr(<<"Y">>)))

\* a faulty variant: one list object shared by every instance (a mutable default)
NewList_Shared(heap) ==
    IF heap = <<>> THEN [id |-> 1, heap |-> <<(<<>>)>>] ELSE [id |-> 1, heap |-> heap]

\* self.approaches = []: a new list object, distinct from every other
NewList(heap) == [id |-> Len(heap) + 1, heap |-> Append(heap, <<>>)]

\* NearEarthObject(designation, name, diameter, hazardous): the object, or
\* the exception the constructor raises.  `a` holds the arguments as passed.
NearEarthObject_init(a, heap) ==
    IF a.designation = Omitted THEN Raise("TypeError")
    ELSE LET diameter == NEO_diameter(Arg(a.diameter, NaN)) IN
        IF ~diameter.ok THEN diameter
        ELSE Ok([designation |-> NEO_designation(a.designation),
                 name        |-> NEO_name(Arg(a.name, PyNone)),
                 diameter    |-> diameter.val,
                 hazardous   |-> NEO_hazardous(Arg(a.hazardous, PyBool(FALSE))),
                 approaches  |-> NewList(heap).id])

\* NearEarthObject.fullname
fullname(self) == PyStr(str(self.designation).s \o <<" ">> \o str(self.name).s)

\* A Python dict: its items in insertion order.
Dict(items) == [t |-> "dict", items |-> items]

Keys(d) == [i \in 1..Len(d.items) |-> d.items[i][1]]

\* a faulty variant: the name formatted without the special case for None
NEO_serialize_NoSpecialCase(self) ==
    Dict(<< <<"name", str(self.name)>>,
            <<"designation", str(self.designation)>>,
            <<"diameter_km", self.diameter>>,
            <<"potentially_hazardous", self.hazardous>> >>)

\* NearEarthObject.serialize
NEO_serialize(self) ==
    Dict(<< <<"name", IF self.name = PyNone THEN PyStr(<<>>) ELSE str(self.name)>>,
            <<"designation", str(self.designation)>>,
            <<"diameter_km", self.diameter>>,
            <<"potentially_hazardous", self.hazardous>> >>)

---------------------------------------------------------------------------
(* class CloseApproach *)

\* self._designation = str(designation) if designation else ''
CA_designation(designation) == IF bool(designation) THEN str(designation) ELSE PyStr(<<>>)

\* a faulty variant: the falsy check of NearEarthObject's diameter
CA_distance_Falsy(distance) == IF bool(distance) THEN float(distance) ELSE Ok(NaN)

\* self.distance = float(distance)
CA_distance(distance) == float(distance)

\* self.velocity = float(velocity)
CA_velocity(velocity) == float(velocity)

\* CloseApproach(time, distance, velocity, neo, designation): the object, or
\* the first exception raised, in the order of the constructor's statements.
CloseApproach_init(a) ==
    IF a.time = Omitted THEN Raise("TypeError")
    ELSE LET designation == CA_designation(Arg(a.designation, PyNone))
             time        == cd_to_datetime(a.time)
             distance    == CA_distance(Arg(a.distance, NaN))
             velocity    == CA_velocity(Arg(a.velocity, NaN))
         IN  IF ~time.ok THEN time
             ELSE IF ~distance.ok THEN distance
             ELSE IF ~velocity.ok THEN velocity
             ELSE Ok([designation_ |-> designation,
                      time         |-> time.val,
                      distance     |-> distance.val,
                      velocity     |-> velocity.val,
                      neo          |-> Arg(a.neo, PyNone)])

\* CloseApproach.time_str
time_str(self) == datetime_to_str(self.time)

\* a faulty variant: the linked object embedded in the output
CA_serialize_WithNeo(self) ==
    Dict(<< <<"datetime_utc", str(datetime_to_str(self.time))>>,
            <<"distance_au", self.distance>>,
            <<"velocity_km_s", self.velocity>>,
            <<"neo", self.neo>> >>)

\* CloseApproach.serialize
CA_serialize(self) ==
    Dict(<< <<"datetime_utc", str(time_str(self))>>,
            <<"distance_au", self.distance>>,
            <<"velocity_km_s", self.velocity>> >>)

---------------------------------------------------------------------------
(* The program state: the objects constructed so far.  neos[i] and cas[j]  *)
(* are the NearEarthObject and CloseApproach instances, lists[l] the list  *)
(* objects (an instance's `approaches` is a reference l into lists), and   *)
(* ret records the last call: its arguments and what it returned/raised.   *)

NoArgs == [none |-> TRUE]

Call(op, self, args, r) ==
    [op |-> op, self |-> self, args |-> args, ok |-> r.ok, val |-> r.val, exc |-> r.exc]

Init ==
    /\ neos = <<>>
    /\ lists = <<>>
    /\ cas = <<>>
    /\ ret = Call("", 0, NoArgs, Ok(PyNone))

\* NearEarthObject(**a)
NewNearEarthObject(a) ==
    LET r == NearEarthObject_init(a, lists) IN
    /\ ret' = Call("NearEarthObject", IF r.ok THEN Len(neos) + 1 ELSE 0, a,
                   IF r.ok THEN Ok(PyRef(Len(neos) + 1)) ELSE r)
    /\ neos' = IF r.ok THEN Append(neos, r.val) ELSE neos
    /\ lists' = IF r.ok THEN NewList(lists).heap ELSE lists
    /\ UNCHANGED cas

\* CloseApproach(**a)
NewCloseApproach(a) ==
    LET r == CloseApproach_init(a) IN
    /\ ret' = Call("CloseApproach", IF r.ok THEN Len(cas) + 1 ELSE 0, a,
                   IF r.ok THEN Ok(PyNone) ELSE r)
    /\ cas' = IF r.ok THEN Append(cas, r.val) ELSE cas
    /\ UNCHANGED <<neos, lists>>

\* neos[i].fullname
GetFullname(i) ==
    /\ ret' = Call("fullname", i, NoArgs, Ok(fullname(neos[i])))
    /\ UNCHANGED <<neos, lists, cas>>

\* neos[i].serialize()
SerializeNEO(i) ==
    /\ ret' = Call("NearEarthObject.serialize", i, NoArgs, Ok(NEO_serialize(neos[i])))
    /\ UNCHANGED <<neos, lists, cas>>

\* cas[j].time_str
GetTimeStr(j) ==
    /\ ret' = Call("time_str", j, NoArgs, Ok(time_str(cas[j])))
    /\ UNCHANGED <<neos, lists, cas>>

\* cas[j].serialize()
SerializeCA(j) ==
    /\ ret' = Call("CloseApproach.serialize", j, NoArgs, Ok(CA_serialize(cas[j])))
    /\ UNCHANGED <<neos, lists, cas>>

\* neos[i].approaches.append(cas[j]), as the linking step does
AppendApproach(i, j) ==
    /\ lists' = [lists EXCEPT ![neos[i].approaches] = Append(@, j)]
    /\ ret' = Call("approaches.append", i, [approach |-> j], Ok(PyNone))
    /\ UNCHANGED <<neos, cas>>

\* cas[j].neo = neos[i], as the linking step does
SetNeo(j, i) ==
    /\ cas[j].neo # PyRef(i)
    /\ cas' = [cas EXCEPT ![j].neo = PyRef(i)]
    /\ ret' = Call("neo.set", j, [neo |-> PyRef(i)], Ok(PyNone))
    /\ UNCHANGED <<neos, lists>>

---------------------------------------------------------------------------
(* Text literals *)

T_Y == <<"Y">>
T_N == <<"N">>
T_y == <<"y">>
T_433 == <<"4", "3", "3">>
T_1036 == <<"1", "0", "3", "6">>
T_0 == <<"0">>
T_Eros == <<"E", "r", "o", "s">>
T_abc == <<"a", "b", "c">>
T_nan == <<"n", "a", "n">>
T_16_84 == <<"1", "6", ".", "8", "4">>
T_0_0924 == <<"0", ".", "0", "9", "2", "4">>
T_0_5 == <<"0", ".", "5">>
T_14_54 == <<"1", "4", ".", "5", "4">>
T_1900Dec27 == <<"1", "9", "0", "0", "-", "D", "e", "c", "-", "2", "7", " ", "0", "1", ":", "3", "0">>
T_2020Jan01 == <<"2", "0", "2", "0", "-", "J", "a", "n", "-", "0", "1", " ", "1", "2", ":", "0", "0">>

---------------------------------------------------------------------------
(* Specification Spec: the build of a small database.  Objects and events  *)
(* are constructed from well-formed catalogue rows, an event's neo is      *)
(* passed or set later, events are appended to approaches lists, and the   *)
(* read-only methods are called at any time.                               *)

\* how many objects (of both classes) a run constructs
MaxObjects == 3

\* how many list entries a run appends
MaxAppends == 2

RECURSIVE SumLen(_)
SumLen(ls) == IF ls = <<>> THEN 0 ELSE Len(Head(ls)) + SumLen(Tail(ls))

NeoRefs == {PyRef(i) : i \in DOMAIN neos}

CatalogueObjects ==
    { [designation |-> PyStr(T_433), name |-> PyStr(T_Eros),
       diameter |-> PyStr(T_16_84), hazardous |-> PyStr(T_N)],
      [designation |-> PyStr(T_1036), name |-> Omitted,
       diameter |-> Omitted, hazardous |-> Omitted] }

CatalogueApproaches ==
    [designation : {PyStr(T_433)}, time : {PyStr(T_1900Dec27)},
     distance : {PyStr(T_0_0924), PyStr(T_0_5)}, velocity : {PyStr(T_14_54)},
     neo : {Omitted} \cup NeoRefs]

Next ==
    \/ Len(neos) + Len(cas) < MaxObjects /\ \E a \in CatalogueObjects :
         NewNearEarthObject(a)
    \/ Len(neos) + Len(cas) < MaxObjects /\ \E a \in CatalogueApproaches :
         NewCloseApproach(a)
    \/ \E i \in DOMAIN neos : GetFullname(i)
    \/ \E i \in DOMAIN neos : SerializeNEO(i)
    \/ \E j \in DOMAIN cas : GetTimeStr(j)
    \/ \E j \in DOMAIN cas : SerializeCA(j)
    \/ SumLen(lists) < MaxAppends /\ \E i \in DOMAIN neos, j \in DOMAIN cas :
         AppendApproach(i, j)
    \/ \E i \in DOMAIN neos, j \in DOMAIN cas : SetNeo(j, i)

Spec == Init /\ [][Next]_vars

---------------------------------------------------------------------------
(* Specification SpecCtor: one constructor call on raw values of every     *)
(* kind a loader may pass (absent, null, empty, text, numbers, booleans),  *)
(* followed by calls of the new object's methods.                          *)

RawDesignations ==
    {Omitted, PyNone, PyStr(<<>>), PyStr(T_433), PyInt(0), PyInt(433)}

RawNames == {Omitted, PyNone, PyStr(<<>>), PyStr(T_Eros), PyInt(0), PyInt(433)}

RawDiameters ==
    {Omitted, PyNone, PyStr(<<>>), PyStr(T_0), PyStr(T_16_84), PyStr(T_nan),
     PyStr(T_abc), PyInt(0), PyInt(433), PyFloat(0, 0), PyFloat(1684, 2), NaN,
     PyBool(FALSE), PyBool(TRUE)}

RawHazardous ==
    {Omitted, PyNone, PyStr(<<>>), PyStr(T_Y), PyStr(T_N), PyStr(T_y),
     PyBool(TRUE), PyBool(FALSE), PyInt(1)}

RawTimes == {Omitted, PyNone, PyStr(T_abc), PyStr(T_1900Dec27), PyStr(T_2020Jan01)}

RawDistances ==
    {Omitted, PyNone, PyStr(<<>>), PyStr(T_0_0924), PyStr(T_abc), NaN, PyInt(0)}

RawVelocities == {Omitted, PyNone, PyStr(<<>>), PyStr(T_14_54), NaN}

RawObjects ==
    [designation : RawDesignations, name : RawNames,
     diameter : RawDiameters, hazardous : RawHazardous]

RawApproaches ==
    [designation : RawDesignations, time : RawTimes, distance : RawDistances,
     velocity : RawVelocities, neo : {Omitted, PyNone}]

\* nothing has been called yet
Fresh == ret.op = ""

NextCtor ==
    \/ Fresh /\ \E a \in RawObjects : NewNearEarthObject(a)
    \/ Fresh /\ \E a \in RawApproaches : NewCloseApproach(a)
    \/ \E i \in DOMAIN neos : GetFullname(i)
    \/ \E i \in DOMAIN neos : SerializeNEO(i)
    \/ \E j \in DOMAIN cas : GetTimeStr(j)
    \/ \E j \in DOMAIN cas : SerializeCA(j)

SpecCtor == Init /\ [][NextCtor]_vars

---------------------------------------------------------------------------
(* Properties *)

NewNeo == ret.op = "NearEarthObject"

NewCa == ret.op = "CloseApproach"

Absent == {Omitted, PyNone, PyStr(<<>>)}

\* C1: the constructed hazardous attribute is True if and only if the raw
\* flag is exactly the text "Y"; "N", "", None, an omitted flag and the
\* boolean True all give False.
C1_HazardousIffY ==
    (NewNeo /\ ret.ok) =>
        neos[ret.self].hazardous = PyBool(ret.args.hazardous = PyStr(T_Y))

C1_Witness ==
    /\ NewNeo /\ ret.ok
    /\ ret.args.hazardous = PyBool(TRUE)
    /\ neos[ret.self].hazardous = PyBool(FALSE)

\* C2: fullname is the designation alone when name is None, and otherwise
\* the designation, one blank and the name; it never ends in "None" for an
\* object without name.
C2_FullnameOmitsNullName ==
    ret.op = "fullname" =>
        LET o == neos[ret.self] IN
        ret.val = IF o.name = PyNone THEN o.designation
                  ELSE PyStr(o.designation.s \o <<" ">> \o o.name.s)

\* C3: serialize() of a NearEarthObject has exactly the keys name,
\* designation, diameter_km, potentially_hazardous in this order; name is ''
\* (never None) for an object without name and the stored name otherwise,
\* and the other three are the stored designation, diameter and hazardous.
C3_NeoSerialize ==
    ret.op = "NearEarthObject.serialize" =>
        LET o == neos[ret.self]
            d == ret.val.items
        IN  /\ Keys(ret.val) = <<"name", "designation", "diameter_km", "potentially_hazardous">>
            /\ d[1][2] # PyNone
            /\ d[1][2] = (IF o.name = PyNone THEN PyStr(<<>>) ELSE o.name)
            /\ d[2][2] = o.designation
            /\ d[3][2] = o.diameter
            /\ d[4][2] = o.hazardous

C3_Witness ==
    /\ ret.op = "NearEarthObject.serialize"
    /\ neos[ret.self].name = PyNone
    /\ ret.val.items[1] = <<"name", PyStr(<<>>)>>

\* C4: a constructed NearEarthObject's designation is neither None nor '',
\* and a raw designation of None or '' makes the constructor raise.
C4_DesignationRequired ==
    NewNeo =>
        /\ ret.ok => neos[ret.self].designation \notin {PyNone, PyStr(<<>>)}
        /\ ret.args.designation \in {PyNone, PyStr(<<>>)} => ~ret.ok

ValidTime == ret.args.time # Omitted /\ cd_to_datetime(ret.args.time).ok

Floatable(v) == v # Omitted /\ float(v).ok

\* C5 as stated: with a valid time, a distance and a velocity that are each
\* omitted, None or '' (or a number) never make CloseApproach raise, and an
\* absent one is stored as not-a-number.
C5_AbsentNeverRaises ==
    (/\ NewCa /\ ValidTime
     /\ ret.args.distance \in Absent \/ Floatable(ret.args.distance)
     /\ ret.args.velocity \in Absent \/ Floatable(ret.args.velocity)) =>
        /\ ret.ok
        /\ ret.args.distance \in Absent => cas[ret.self].distance = NaN
        /\ ret.args.velocity \in Absent => cas[ret.self].velocity = NaN

\* what float() raises for an absent value that was passed
AbsentError(v) == IF v = PyNone THEN "TypeError" ELSE "ValueError"

\* C5, amended: with a valid time, CloseApproach succeeds when distance and
\* velocity are omitted (or numbers), an omitted one being stored as
\* not-a-number; a distance or velocity passed as None makes it raise
\* TypeError, and one passed as '' ValueError (the first of the two decides).
C5_OmittedNeverRaises ==
    (/\ NewCa /\ ValidTime
     /\ ret.args.distance \in Absent \/ Floatable(ret.args.distance)
     /\ ret.args.velocity \in Absent \/ Floatable(ret.args.velocity)) =>
        LET passed == {PyNone, PyStr(<<>>)}
            d == ret.args.distance
            v == ret.args.velocity
        IN  /\ ret.ok <=> (d \notin passed /\ v \notin passed)
            /\ (ret.ok /\ d = Omitted) => cas[ret.self].distance = NaN
            /\ (ret.ok /\ v = Omitted) => cas[ret.self].velocity = NaN
            /\ ~ret.ok => ret.exc = IF d \in passed THEN AbsentError(d) ELSE AbsentError(v)

C5_Witness ==
    /\ NewCa /\ ValidTime /\ ret.ok
    /\ ret.args.distance = Omitted /\ ret.args.velocity = Omitted
    /\ cas[ret.self].distance = NaN /\ cas[ret.self].velocity = NaN

\* C6: a raw diameter that is falsy (omitted, None, '', a zero number,
\* False) never makes NearEarthObject raise and is stored as not-a-number;
\* a truthy one that float() accepts is stored as its float value.
C6_DiameterFalsyIsNaN ==
    (NewNeo /\ ret.args.designation # Omitted) =>
        LET raw == ret.args.diameter IN
        /\ (raw = Omitted \/ ~bool(raw)) =>
               ret.ok /\ neos[ret.self].diameter = NaN
        /\ (raw # Omitted /\ bool(raw) /\ float(raw).ok) =>
               ret.ok /\ neos[ret.self].diameter = float(raw).val

C6_Witness ==
    /\ NewNeo /\ ret.ok
    /\ ret.args.diameter = PyInt(0)
    /\ neos[ret.self].diameter = NaN

SameReading(e1, e2) ==
    /\ e1.time = e2.time
    /\ PyEq(e1.distance, e2.distance)
    /\ PyEq(e1.velocity, e2.velocity)

\* C7: serialize() of a CloseApproach has exactly the keys datetime_utc,
\* distance_au, velocity_km_s in this order; the result is that of every
\* event equal in time, distance and velocity, whatever the neo of either;
\* and the call changes no attribute of any object.
C7_CaSerializeIgnoresNeo ==
    [][ret'.op = "CloseApproach.serialize" =>
         /\ ret'.val.items = << <<"datetime_utc", datetime_to_str(cas[ret'.self].time)>>,
                                <<"distance_au", cas[ret'.self].distance>>,
                                <<"velocity_km_s", cas[ret'.self].velocity>> >>
         /\ \A k \in DOMAIN cas :
                SameReading(cas[k], cas[ret'.self]) => CA_serialize(cas[k]) = ret'.val
         /\ UNCHANGED <<neos, lists, cas>>
      ]_vars

C7_Witness ==
    /\ ret.op = "CloseApproach.serialize"
    /\ \E j \in DOMAIN cas :
         /\ j # ret.self
         /\ SameReading(cas[j], cas[ret.self])
         /\ cas[j].neo = PyNone
         /\ cas[ret.self].neo # PyNone

\* C8: the stored name is str(name) when the raw name is truthy and None
\* otherwise, so it is None or a non-empty text, never ''.
C8_NameNullOrNonEmpty ==
    (NewNeo /\ ret.ok) =>
        LET raw  == Arg(ret.args.name, PyNone)
            name == neos[ret.self].name
        IN  /\ name = IF bool(raw) THEN str(raw) ELSE PyNone
            /\ name = PyNone \/ (name.t = "str" /\ name.s # <<>>)

C8_Witness ==
    /\ NewNeo /\ ret.ok
    /\ ret.args.name = PyStr(<<>>)
    /\ neos[ret.self].name = PyNone

\* C9: the private designation of a CloseApproach is str(designation) when
\* a designation is passed, and '' only when it is None or omitted; the
\* number 0 is stored as "0".
C9_CaDesignationWhenPresent ==
    (NewCa /\ ret.ok) =>
        cas[ret.self].designation_ =
            IF ret.args.designation \in {Omitted, PyNone} THEN PyStr(<<>>)
            ELSE str(ret.args.designation)

Approaches(i) == lists[neos[i].approaches]

\* C10: construction never links.  No two objects share an approaches list;
\* a new NearEarthObject starts with an empty one and a new CloseApproach
\* stores neo as given (None by default), neither changing any existing
\* object; and an append to one object's approaches leaves every other
\* object's approaches as it was.
C10_ConstructionNeverLinks ==
    [][/\ \A i, k \in DOMAIN neos' :
            i # k => neos'[i].approaches # neos'[k].approaches
       /\ Len(neos') > Len(neos) =>
            /\ lists'[neos'[Len(neos')].approaches] = <<>>
            /\ cas' = cas
            /\ \A i \in DOMAIN neos : neos'[i] = neos[i] /\ Approaches(i)' = Approaches(i)
       /\ Len(cas') > Len(cas) =>
            /\ cas'[Len(cas')].neo = Arg(ret'.args.neo, PyNone)
            /\ neos' = neos
            /\ \A j \in DOMAIN cas : cas'[j] = cas[j]
            /\ \A i \in DOMAIN neos : Approaches(i)' = Approaches(i)
       /\ ret'.op = "approaches.append" =>
            \A k \in DOMAIN neos : k # ret'.self => Approaches(k)' = Approaches(k)
      ]_vars

C10_Witness ==
    /\ Len(neos) >= 2 /\ Len(cas) >= 1
    /\ Approaches(1) = <<1>>
    /\ Approaches(2) = <<>>
    /\ NewNeo /\ ret.ok /\ ret.self = 2

=============================================================================
